---------------------------- MODULE Spec2Model ----------------------------
(***************************************************************************)
(* Connect Four rules engine (game/connect_four.py) and the difficulty     *)
(* engines built on it (game/minimax.py, game/difficulty_levels.py).       *)
(*                                                                         *)
(* A ConnectFourGame object is a record whose board field is a reference   *)
(* into `arrays`, the store of numpy arrays: make_move writes the array in *)
(* place, reset and copy allocate a new one.  The pure operators below     *)
(* work on the dereferenced record (board held inline), which is also what *)
(* the engines explore.                                                    *)
(***************************************************************************)
EXTENDS Integers, Sequences, FiniteSets, TLC

VARIABLES arrays,   \* id -> numpy array (row -> column -> cell), or NoArray
          game,     \* the ConnectFourGame under play
          twin,     \* the object returned by the last game.copy(), or NoGame
          last,     \* the last call made and what it returned
          budget,   \* successful make_move calls still allowed in this run
          thermal,  \* the temperature sensors and the ThermalAwareAI request
          gui       \* the window around the game: GameController.game_over,
                    \* the column buttons and the timer callbacks pending

vars == <<arrays, game, twin, last, budget, thermal, gui>>

-----------------------------------------------------------------------------
(* Bounds of the model *)

MaxMoves == 7            \* successful make_move calls per run of Spec
MaxCopyMoves == 4        \* successful make_move calls per run of SpecCopy
MaxAIMoves == 2          \* successful make_move calls per run of SpecAI
MaxEngineMoves == 2      \* successful make_move calls per run of SpecEngines
MaxSearchMoves == 1      \* successful make_move calls per run of SpecSearch
MaxThermalMoves == 1     \* successful make_move calls per run of SpecThermal
MaxDepth == 2            \* the deepest _minimax call made in SpecSearch

-----------------------------------------------------------------------------
(* class Player *)

EMPTY == 0
ONE == 1
TWO == 2
None == 3                \* "no winner" / "no last move"; no Player has it

NoGame == [rows |-> 0]
NoArray == <<>>
ArrayIds == {1, 2, 3}

-----------------------------------------------------------------------------
(* numpy indexing: a negative index counts from the end *)

Wrap(i, n) == IF i < 0 THEN i + n ELSE i

At(g, r, c) == g.board[Wrap(r, g.rows)][Wrap(c, g.cols)]

zeros(rows, cols) == [r \in 0..(rows - 1) |-> [c \in 0..(cols - 1) |-> EMPTY]]

Range(n) == [i \in 1..n |-> i - 1]

-----------------------------------------------------------------------------
(* class ConnectFourGame, on a dereferenced object g *)

new_game(rows, cols) ==
    [rows |-> rows, cols |-> cols, board |-> zeros(rows, cols),
     current_player |-> ONE, last_move |-> <<>>, move_count |-> 0]

is_valid_move_lowonly(g, col) ==
    col < g.cols /\ At(g, 0, col) = EMPTY

is_valid_move(g, col) ==
    0 <= col /\ col < g.cols /\ At(g, 0, col) = EMPTY

\* mutant of get_valid_columns: full columns are listed too
get_valid_columns_unfiltered(g) == Range(g.cols)

get_valid_columns(g) ==
    SelectSeq(Range(g.cols), LAMBDA col : is_valid_move(g, col))

get_next_open_row_top(g, col) ==
    LET open == {row \in 0..(g.rows - 1) : At(g, row, col) = EMPTY}
    IN  IF open = {} THEN -1
        ELSE CHOOSE row \in open : \A other \in open : other >= row

get_next_open_row(g, col) ==
    LET open == {row \in 0..(g.rows - 1) : At(g, row, col) = EMPTY}
    IN  IF open = {} THEN -1
        ELSE CHOOSE row \in open : \A other \in open : other <= row

Opponent(p) == IF p = ONE THEN TWO ELSE ONE

\* make_move trusting a range check alone: a full column yields row -1
make_move_unchecked(g, col) ==
    IF ~(0 <= col /\ col < g.cols) THEN [ok |-> FALSE, g |-> g]
    ELSE LET row == get_next_open_row(g, col)
         IN  [ok |-> TRUE,
              g  |-> [g EXCEPT
                        !.board[Wrap(row, g.rows)][Wrap(col, g.cols)] =
                            g.current_player,
                        !.last_move = <<row, col>>,
                        !.move_count = g.move_count + 1,
                        !.current_player =
                            IF g.current_player = ONE THEN TWO ELSE ONE]]

\* make_move switching the player before it places the piece
make_move_switch_first(g, col) ==
    IF ~is_valid_move(g, col) THEN [ok |-> FALSE, g |-> g]
    ELSE LET row == get_next_open_row(g, col)
             other == IF g.current_player = ONE THEN TWO ELSE ONE
         IN  IF row = -1 THEN [ok |-> FALSE, g |-> g]
             ELSE [ok |-> TRUE,
                   g  |-> [g EXCEPT
                             !.board[Wrap(row, g.rows)][Wrap(col, g.cols)] =
                                 other,
                             !.last_move = <<row, col>>,
                             !.move_count = g.move_count + 1,
                             !.current_player = other]]

\* make_move returns its result together with the object after the call
make_move(g, col) ==
    IF ~is_valid_move(g, col) THEN [ok |-> FALSE, g |-> g]
    ELSE LET row == get_next_open_row(g, col)
         IN  IF row = -1 THEN [ok |-> FALSE, g |-> g]
             ELSE [ok |-> TRUE,
                   g  |-> [g EXCEPT
                             !.board[Wrap(row, g.rows)][Wrap(col, g.cols)] =
                                 g.current_player,
                             !.last_move = <<row, col>>,
                             !.move_count = g.move_count + 1,
                             !.current_player =
                                 IF g.current_player = ONE THEN TWO ELSE ONE]]

\* four equal non-empty cells from (row, col) in steps of (dr, dc)
Line(g, row, col, dr, dc) ==
    /\ g.board[row][col] # EMPTY
    /\ g.board[row][col] = g.board[row + dr][col + dc]
    /\ g.board[row][col] = g.board[row + 2 * dr][col + 2 * dc]
    /\ g.board[row][col] = g.board[row + 3 * dr][col + 3 * dc]

\* the first element of a loop nest's hits, by the loop's iteration order
FirstBy(hits, Key(_)) ==
    CHOOSE h \in hits : \A o \in hits : Key(h) <= Key(o)

check_win(g) ==
    LET horizontal == {h \in (0..(g.rows - 1)) \X (0..(g.cols - 4)) :
                          Line(g, h[1], h[2], 0, 1)}
        vertical   == {h \in (0..(g.rows - 4)) \X (0..(g.cols - 1)) :
                          Line(g, h[1], h[2], 1, 0)}
        positive   == {h \in (0..(g.rows - 4)) \X (0..(g.cols - 4)) :
                          Line(g, h[1], h[2], 1, 1)}
        negative   == {h \in (3..(g.rows - 1)) \X (0..(g.cols - 4)) :
                          Line(g, h[1], h[2], -1, 1)}
        RowMajor(h) == h[1] * g.cols + h[2]
        ColMajor(h) == h[2] * g.rows + h[1]
        Cell(h) == g.board[h[1]][h[2]]
    IN  IF horizontal # {} THEN Cell(FirstBy(horizontal, RowMajor))
        ELSE IF vertical # {} THEN Cell(FirstBy(vertical, ColMajor))
        ELSE IF positive # {} THEN Cell(FirstBy(positive, RowMajor))
        ELSE IF negative # {} THEN Cell(FirstBy(negative, RowMajor))
        ELSE None

is_draw_default_board(g) == g.move_count = 42

is_draw(g) == g.move_count = g.rows * g.cols

is_game_over(g) == check_win(g) # None \/ is_draw(g)

reset_keep_player(g) ==
    [g EXCEPT !.board = zeros(g.rows, g.cols),
              !.last_move = <<>>, !.move_count = 0]

reset_keep_count(g) ==
    [g EXCEPT !.board = zeros(g.rows, g.cols), !.current_player = ONE,
              !.last_move = <<>>]

reset(g) ==
    [g EXCEPT !.board = zeros(g.rows, g.cols), !.current_player = ONE,
              !.last_move = <<>>, !.move_count = 0]

-----------------------------------------------------------------------------
(* Objects and the array store *)

\* the object with its board read through the reference
Deref(obj) == [obj EXCEPT !.board = arrays[obj.board]]

\* an array id no other object refers to (np.zeros / ndarray.copy allocate)
Alloc(other) ==
    CHOOSE id \in ArrayIds :
        /\ (other # NoGame => id # other.board)
        /\ \A lower \in ArrayIds :
               (other # NoGame => lower # other.board) => id <= lower

\* copy(): the new object, given the id of the array board.copy() allocated
copy_shared_board(obj, id) == obj

copy(obj, id) ==
    [rows |-> obj.rows, cols |-> obj.cols, board |-> id,
     current_player |-> obj.current_player, last_move |-> obj.last_move,
     move_count |-> obj.move_count]

\* replaying a recorded game on a new object
RECURSIVE Replay(_, _)
Replay(g, moves) ==
    IF moves = <<>> THEN g
    ELSE Replay(make_move(g, Head(moves)).g, Tail(moves))

-----------------------------------------------------------------------------
(* class MinimaxEngine and its subclasses (game/minimax.py,                *)
(* game/difficulty_levels.py).  An engine is its class and its max_depth.  *)

PosInf == 1000000000      \* float('inf'): above every score
NegInf == -PosInf

MinimaxEngine(max_depth) == [kind |-> "MinimaxEngine", max_depth |-> max_depth]
DepthLimitedMinimax(max_depth) ==
    [kind |-> "DepthLimitedMinimax", max_depth |-> max_depth]
\* mutant of HardAI: the depth of DepthLimitedMinimax
HardAI_shallow == [kind |-> "HardAI", max_depth |-> 2]

EasyAI == [kind |-> "EasyAI", max_depth |-> 2]
MediumAI == [kind |-> "MediumAI", max_depth |-> 4]
HardAI == [kind |-> "HardAI", max_depth |-> 6]

RECURSIVE CenterOut(_, _, _)
CenterOut(cols, center, i) ==
    IF i > cols \div 2 THEN <<>>
    ELSE (IF center - i >= 0 THEN <<center - i>> ELSE <<>>)
           \o (IF center + i < cols THEN <<center + i>> ELSE <<>>)
           \o CenterOut(cols, center, i + 1)

_get_center_prioritized_columns(cols) ==
    <<cols \div 2>> \o CenterOut(cols, cols \div 2, 1)

\* set in __init__ for seven columns, whatever the size of the board
column_order == _get_center_prioritized_columns(7)

InList(x, list) == \E i \in 1..Len(list) : list[i] = x

\* the first element of list that satisfies Test, or -1
FirstWhere(list, Test(_)) ==
    LET hits == {i \in 1..Len(list) : Test(list[i])}
    IN  IF hits = {} THEN -1
        ELSE list[CHOOSE i \in hits : \A j \in hits : i <= j]

RECURSIVE SumFrom(_, _)
SumFrom(list, i) == IF i > Len(list) THEN 0 ELSE list[i] + SumFrom(list, i + 1)

Sum(list) == SumFrom(list, 1)

Count(window, value) == Cardinality({i \in 1..Len(window) : window[i] = value})

\* Body applied to value, with value worked out once
With(value, Body(_)) == CHOOSE r \in {Body(v) : v \in {value}} : TRUE

Max(a, b) == IF a >= b THEN a ELSE b
Min(a, b) == IF a <= b THEN a ELSE b

\* max() of a list that is not empty
RECURSIVE MaxOf(_)
MaxOf(values) ==
    IF Len(values) = 1 THEN values[1]
    ELSE Max(values[1], MaxOf(Tail(values)))

_evaluate_window(e, window, player) ==
    LET opponent == IF player = TWO THEN ONE ELSE TWO
        player_count == Count(window, player)
        empty_count == Count(window, EMPTY)
        opponent_count == Count(window, opponent)
    IN  IF e.kind = "EasyAI" THEN
            IF player_count = 4 THEN 100
            ELSE IF player_count = 3 /\ empty_count = 1 THEN 7
            ELSE IF player_count = 2 /\ empty_count = 2 THEN 3
            ELSE IF opponent_count = 3 /\ empty_count = 1 THEN -15
            ELSE IF opponent_count = 2 /\ empty_count = 2 THEN -1
            ELSE 0
        ELSE IF e.kind = "MediumAI" THEN
            IF player_count = 4 THEN 100
            ELSE IF player_count = 3 /\ empty_count = 1 THEN 7
            ELSE IF player_count = 2 /\ empty_count = 2 THEN 3
            ELSE IF opponent_count = 3 /\ empty_count = 1 THEN -30
            ELSE IF opponent_count = 2 /\ empty_count = 2 THEN -2
            ELSE 0
        ELSE IF e.kind = "HardAI" THEN
            IF player_count = 4 THEN 100
            ELSE IF player_count = 3 /\ empty_count = 1 THEN 15
            ELSE IF player_count = 2 /\ empty_count = 2 THEN 5
            ELSE IF opponent_count = 3 /\ empty_count = 1 THEN -90
            ELSE IF opponent_count = 2 /\ empty_count = 2 THEN -5
            ELSE 0
        ELSE
            IF player_count = 4 THEN 100
            ELSE IF player_count = 3 /\ empty_count = 1 THEN 5
            ELSE IF player_count = 2 /\ empty_count = 2 THEN 2
            ELSE IF opponent_count = 3 /\ empty_count = 1 THEN -80
            ELSE 0

\* range(n) x range(m) in loop order (first index outer), as a list of pairs
Grid(n, m) ==
    IF n <= 0 \/ m <= 0 THEN <<>>
    ELSE [k \in 1..(n * m) |-> <<(k - 1) \div m, (k - 1) % m>>]

\* the four cells from (row, col) in steps of (dr, dc)
Window(g, row, col, dr, dc) ==
    [i \in 1..4 |-> g.board[row + (i - 1) * dr][col + (i - 1) * dc]]

center_count(g, player) ==
    Cardinality({row \in 0..(g.rows - 1) : g.board[row][g.cols \div 2] = player})

\* the four window loops shared by the _score_position methods
WindowScores(e, g, player) ==
    LET horizontal == Grid(g.rows, g.cols - 3)
        vertical   == Grid(g.cols, g.rows - 3)
        positive   == Grid(g.rows - 3, g.cols - 3)
        negative   == Grid(g.rows - 3, g.cols - 3)
    IN  Sum([k \in 1..Len(horizontal) |->
               _evaluate_window(e, Window(g, horizontal[k][1],
                                          horizontal[k][2], 0, 1), player)])
        + Sum([k \in 1..Len(vertical) |->
               _evaluate_window(e, Window(g, vertical[k][2],
                                          vertical[k][1], 1, 0), player)])
        + Sum([k \in 1..Len(positive) |->
               _evaluate_window(e, Window(g, positive[k][1],
                                          positive[k][2], 1, 1), player)])
        + Sum([k \in 1..Len(negative) |->
               _evaluate_window(e, Window(g, negative[k][1] + 3,
                                          negative[k][2], -1, 1), player)])

\* a list's slices of four holding two of player's pieces and two empty cells
PairSlices(window, player) ==
    With(window, LAMBDA w :
        IF Len(w) < 4 THEN 0
        ELSE Cardinality({i \in 1..(Len(w) - 3) :
                 With(SubSeq(w, i, i + 3), LAMBDA sub_window :
                     /\ Count(sub_window, player) = 2
                     /\ Count(sub_window, EMPTY) = 2)}))

\* the cells (row + sr * i, col + i), i = -3..3, that lie on the board
Diagonal(g, row, col, sr) ==
    LET on == {i \in (-3)..3 : /\ 0 <= row + sr * i /\ row + sr * i < g.rows
                               /\ 0 <= col + i /\ col + i < g.cols}
        lo == CHOOSE i \in on : \A j \in on : i <= j
    IN  [k \in 1..Cardinality(on) |->
           g.board[row + sr * (lo + k - 1)][col + lo + k - 1]]

\* HardAI._score_position's count of empty cells with two or more "threats"
TrapSetups(g, player) ==
    Cardinality({rc \in (0..(g.rows - 1)) \X (0..(g.cols - 1)) :
        LET row == rc[1]
            col == rc[2]
            window1 == [k \in 1..(Min(g.cols, col + 4) - Max(0, col - 3)) |->
                          g.board[row][Max(0, col - 3) + k - 1]]
            window2 == [k \in 1..(Min(g.rows, row + 4) - Max(0, row - 3)) |->
                          g.board[Max(0, row - 3) + k - 1][col]]
            window3 == Diagonal(g, row, col, 1)
            window4 == Diagonal(g, row, col, -1)
            threats == PairSlices(window1, player) + PairSlices(window2, player)
                       + PairSlices(window3, player) + PairSlices(window4, player)
        IN  g.board[row][col] = EMPTY /\ threats >= 2})

_score_position(e, g, player) ==
    IF e.kind = "DepthLimitedMinimax" THEN
        LET horizontal == Grid(g.rows, g.cols - 3)
            vertical   == Grid(g.cols, g.rows - 3)
            Three(window) == Count(window, player) = 3 /\ Count(window, EMPTY) = 1
        IN  5 * Cardinality({k \in 1..Len(horizontal) :
                    Three(Window(g, horizontal[k][1], horizontal[k][2], 0, 1))})
            + 5 * Cardinality({k \in 1..Len(vertical) :
                    Three(Window(g, vertical[k][2], vertical[k][1], 1, 0))})
    ELSE IF e.kind = "HardAI" THEN
        center_count(g, player) * 5 + WindowScores(e, g, player)
            + 20 * TrapSetups(g, player)
    ELSE IF e.kind = "MediumAI" THEN
        (center_count(g, player) * 3 + WindowScores(e, g, player))
            + center_count(g, player) * 3
    ELSE
        center_count(g, player) * 3 + WindowScores(e, g, player)

RECURSIVE _minimax(_, _, _, _, _, _)
RECURSIVE MaxLoop(_, _, _, _, _, _, _, _)
RECURSIVE MinLoop(_, _, _, _, _, _, _, _)

\* mutant of MaxLoop: the loop is left as soon as a score reaches alpha
MaxLoop_cut_at_alpha(e, g, depth, valid_moves, i, max_score, alpha, beta) ==
    IF i > Len(column_order) THEN max_score
    ELSE IF ~InList(column_order[i], valid_moves)
         THEN MaxLoop(e, g, depth, valid_moves, i + 1, max_score, alpha, beta)
    ELSE With(_minimax(e, make_move(g, column_order[i]).g, depth - 1,
                       FALSE, alpha, beta),
              LAMBDA score :
                  IF alpha <= score THEN Max(max_score, score)
                  ELSE MaxLoop(e, g, depth, valid_moves, i + 1,
                               Max(max_score, score), Max(alpha, score), beta))

\* the is_maximizing loop of _minimax from column_order[i] on
MaxLoop(e, g, depth, valid_moves, i, max_score, alpha, beta) ==
    IF i > Len(column_order) THEN max_score
    ELSE IF ~InList(column_order[i], valid_moves)
         THEN MaxLoop(e, g, depth, valid_moves, i + 1, max_score, alpha, beta)
    ELSE With(_minimax(e, make_move(g, column_order[i]).g, depth - 1,
                       FALSE, alpha, beta),
              LAMBDA score :
                  IF beta <= Max(alpha, score) THEN Max(max_score, score)
                  ELSE MaxLoop(e, g, depth, valid_moves, i + 1,
                               Max(max_score, score), Max(alpha, score), beta))

\* the minimizing loop of _minimax from column_order[i] on
MinLoop(e, g, depth, valid_moves, i, min_score, alpha, beta) ==
    IF i > Len(column_order) THEN min_score
    ELSE IF ~InList(column_order[i], valid_moves)
         THEN MinLoop(e, g, depth, valid_moves, i + 1, min_score, alpha, beta)
    ELSE With(_minimax(e, make_move(g, column_order[i]).g, depth - 1,
                       TRUE, alpha, beta),
              LAMBDA score :
                  IF Min(beta, score) <= alpha THEN Min(min_score, score)
                  ELSE MinLoop(e, g, depth, valid_moves, i + 1,
                               Min(min_score, score), alpha, Min(beta, score)))

_minimax(e, g, depth, is_maximizing, alpha, beta) ==
    With(check_win(g), LAMBDA winner :
        IF winner # None THEN
            IF winner = 3 - g.current_player THEN 1000000 ELSE -1000000
        ELSE IF is_draw(g) THEN 0
        ELSE IF depth = 0 THEN
            _score_position(e, g, IF is_maximizing THEN TWO ELSE ONE)
        ELSE IF is_maximizing THEN
            With(get_valid_columns(g), LAMBDA valid_moves :
                MaxLoop(e, g, depth, valid_moves, 1, NegInf, alpha, beta))
        ELSE
            With(get_valid_columns(g), LAMBDA valid_moves :
                MinLoop(e, g, depth, valid_moves, 1, PosInf, alpha, beta)))

\* the loop of MinimaxEngine.find_best_move from column_order[i] on
RECURSIVE RootLoop(_, _, _, _, _, _)
RootLoop(e, g, valid_moves, i, best_score, best_move) ==
    IF i > Len(column_order) THEN best_move
    ELSE IF ~InList(column_order[i], valid_moves)
         THEN RootLoop(e, g, valid_moves, i + 1, best_score, best_move)
    ELSE LET col == column_order[i]
         IN  With(make_move(g, col).g, LAMBDA game_copy :
                 IF check_win(game_copy) = 3 - g.current_player THEN col
                 ELSE With(_minimax(e, game_copy, e.max_depth - 1, FALSE,
                                    NegInf, PosInf),
                           LAMBDA score :
                               IF score > best_score
                               THEN RootLoop(e, g, valid_moves, i + 1, score, col)
                               ELSE RootLoop(e, g, valid_moves, i + 1,
                                             best_score, best_move)))

\* MinimaxEngine.find_best_move; first is valid_moves[0] after random.shuffle
MinimaxEngine_find_best_move(e, g, first) ==
    With(get_valid_columns(g), LAMBDA valid_moves :
        IF valid_moves = <<>> THEN -1
        ELSE RootLoop(e, g, valid_moves, 1, NegInf, first))

\* "game_copy = game.copy(); game_copy.make_move(col)"
After(g, col) == make_move(g, col).g

\* "game_copy.current_player = player; game_copy.make_move(col)"
AfterAs(g, player, col) == make_move([g EXCEPT !.current_player = player], col).g

\* the immediate-win test of the three difficulty engines
TakesWin(g, col) == check_win(After(g, col)) = 3 - g.current_player

\* the immediate-block test of the three difficulty engines
BlocksWin_as_mover(g, col) ==
    check_win(After(g, col)) = (IF g.current_player = TWO THEN ONE ELSE TWO)

BlocksWin(g, col) ==
    LET opponent == IF g.current_player = TWO THEN ONE ELSE TWO
    IN  check_win(AfterAs(g, opponent, col)) = opponent

\* EasyAI.find_best_move.  blocks: the columns at which random.random() < 0.8
\* would come out true; lucky: random.random() < random_move_probability;
\* pick: the index random.choice draws; first: as in MinimaxEngine.
EasyAI_find_best_move(g, blocks, lucky, pick, first) ==
    LET valid_moves == get_valid_columns(g)
        win == FirstWhere(valid_moves, LAMBDA col : TakesWin(g, col))
        block == FirstWhere(valid_moves,
                            LAMBDA col : BlocksWin(g, col) /\ col \in blocks)
    IN  IF valid_moves = <<>> THEN -1
        ELSE IF win # -1 THEN win
        ELSE IF block # -1 THEN block
        ELSE IF lucky THEN valid_moves[pick]
        ELSE MinimaxEngine_find_best_move(EasyAI, g, first)

\* MediumAI._creates_trap(game, column, player)
_creates_trap(g, column, player) ==
    LET valid == get_valid_columns(g)
        winning_paths ==
            Cardinality({i \in 1..Len(valid) :
                LET moved == make_move([g EXCEPT !.current_player = player],
                                       valid[i])
                IN  moved.ok /\ check_win(moved.g) = player})
    IN  winning_paths >= 2

\* (the score lists below are built with \o so that each score is worked
\* out once, when the list is made)
\* the columns of a (column, score) list after list.sort(reverse=True): best
\* score first; the sort is stable, so equal scores keep their order
RECURSIVE SortedByScore(_, _)
SortedByScore(cols, scores) ==
    IF cols = <<>> THEN <<>>
    ELSE LET best == CHOOSE i \in 1..Len(cols) :
                        \A j \in 1..Len(cols) :
                            \/ scores[i] > scores[j]
                            \/ scores[i] = scores[j] /\ i <= j
             Without(list) == SubSeq(list, 1, best - 1)
                                \o SubSeq(list, best + 1, Len(list))
         IN  <<cols[best]>> \o SortedByScore(Without(cols), Without(scores))

\* MediumAI.find_best_move.  sub: random.random() < suboptimal_move_probability
MediumAI_find_best_move(g, sub, first) ==
    LET valid_moves == get_valid_columns(g)
        opponent == IF g.current_player = TWO THEN ONE ELSE TWO
        win == FirstWhere(valid_moves, LAMBDA col : TakesWin(g, col))
        block == FirstWhere(valid_moves, LAMBDA col : BlocksWin(g, col))
        trap == FirstWhere(valid_moves, LAMBDA col :
                    _creates_trap(After(g, col), col, 3 - g.current_player))
        Bad(col) ==
            LET game_copy == After(g, col)
                opponent_moves == get_valid_columns(game_copy)
            IN  /\ ~is_game_over(game_copy)
                /\ \E i \in 1..Len(opponent_moves) :
                       check_win(After(game_copy, opponent_moves[i]))
                           = g.current_player
        kept == SelectSeq(valid_moves, LAMBDA col : ~Bad(col))
        scores == <<>> \o [i \in 1..Len(kept) |->
                     _minimax(MediumAI, After(g, kept[i]), MediumAI.max_depth - 1,
                              FALSE, NegInf, PosInf)]
        move_scores == SortedByScore(kept, scores)
    IN  IF valid_moves = <<>> THEN -1
        ELSE IF win # -1 THEN win
        ELSE IF block # -1 THEN block
        ELSE IF trap # -1 THEN trap
        ELSE IF sub /\ Len(kept) > 1 THEN move_scores[2]
        ELSE MinimaxEngine_find_best_move(MediumAI, g, first)

\* HardAI.find_best_move, the four priorities that come before the search:
\* the column one of them returns, or -1
HardAI_priorities(g) ==
    LET valid_moves == get_valid_columns(g)
        opponent == IF g.current_player = TWO THEN ONE ELSE TWO
        win == FirstWhere(valid_moves, LAMBDA col : TakesWin(g, col))
        block == FirstWhere(valid_moves, LAMBDA col : BlocksWin(g, col))
        \* third priority: the columns next_col that go into winning_moves
        Fork(col) ==
            Cardinality({i \in 1..Len(valid_moves) :
                LET moved == make_move([After(g, col) EXCEPT
                                          !.current_player = 3 - g.current_player],
                                       valid_moves[i])
                IN  moved.ok /\ check_win(moved.g) = 3 - g.current_player}) >= 2
        fork == FirstWhere(valid_moves, Fork)
        \* fourth priority: opponent_winning_moves after col, then opp_col
        OpponentFork(col, opp_col) ==
            LET fork_game == AfterAs(After(g, col), opponent, opp_col)
                tests == get_valid_columns(fork_game)
            IN  Cardinality({i \in 1..Len(tests) :
                    LET moved == make_move([fork_game EXCEPT
                                              !.current_player = opponent],
                                           tests[i])
                    IN  moved.ok /\ check_win(moved.g) = opponent}) >= 2
        Answer(col) ==
            FirstWhere(get_valid_columns(After(g, col)), LAMBDA opp_col :
                OpponentFork(col, opp_col) /\ InList(opp_col, valid_moves))
        guarded == FirstWhere(valid_moves, LAMBDA col : Answer(col) # -1)
    IN  IF valid_moves = <<>> THEN -1
        ELSE IF win # -1 THEN win
        ELSE IF block # -1 THEN block
        ELSE IF fork # -1 THEN fork
        ELSE IF guarded # -1 THEN Answer(guarded)
        ELSE -1

\* HardAI.find_best_move, the search that ends it: every valid move scored
\* and the list sorted by score
HardAI_ranking(g) ==
    LET valid_moves == get_valid_columns(g)
        scores == <<>> \o [i \in 1..Len(valid_moves) |->
                     _minimax(HardAI, After(g, valid_moves[i]),
                              HardAI.max_depth - 1, FALSE, NegInf, PosInf)]
        move_scores == SortedByScore(valid_moves, scores)
    IN  move_scores[1]

\* HardAI.find_best_move
HardAI_find_best_move(g) ==
    LET rule == HardAI_priorities(g)
    IN  IF get_valid_columns(g) = <<>> THEN -1
        ELSE IF rule # -1 THEN rule
        ELSE HardAI_ranking(g)

-----------------------------------------------------------------------------
(* How far ahead a find_best_move call looks: the number of moves between   *)
(* the game it is given and the deepest copy it makes a move on.  A loop is *)
(* taken to run over every column it can visit; a cut-off, or a return from *)
(* inside a loop, only leaves columns out.                                  *)

\* the deepest copy _minimax(g, depth, ...) moves on, in moves below g
RECURSIVE _minimax_plies(_, _)
_minimax_plies(g, depth) ==
    LET visited == SelectSeq(column_order,
                             LAMBDA col : InList(col, get_valid_columns(g)))
    IN  IF check_win(g) # None \/ is_draw(g) \/ depth = 0 \/ visited = <<>>
        THEN 0
        ELSE 1 + MaxOf(<<>> \o [i \in 1..Len(visited) |->
                          _minimax_plies(After(g, visited[i]), depth - 1)])

\* the search of find_best_move: one move on a copy, then
\* _minimax(game_copy, max_depth - 1, ...)
search_plies(e, g) ==
    LET valid_moves == get_valid_columns(g)
    IN  IF valid_moves = <<>> THEN 0
        ELSE 1 + MaxOf(<<>> \o [i \in 1..Len(valid_moves) |->
                          _minimax_plies(After(g, valid_moves[i]),
                                         e.max_depth - 1)])

\* n loops of "copy, make_move" nested in one another
RECURSIVE nested_plies(_, _)
nested_plies(g, n) ==
    LET valid_moves == get_valid_columns(g)
    IN  IF n = 0 \/ valid_moves = <<>> THEN 0
        ELSE 1 + MaxOf(<<>> \o [i \in 1..Len(valid_moves) |->
                          nested_plies(After(g, valid_moves[i]), n - 1)])

\* the rules that come before the search: win and block look one move
\* ahead, MediumAI's trap and filter two, HardAI's fork two and its fork
\* blocking three (col, opp_col, test_col)
rule_plies(e, g) ==
    nested_plies(g, CASE e.kind = "EasyAI" -> 1
                      [] e.kind = "MediumAI" -> 2
                      [] e.kind = "HardAI" -> 3
                      [] OTHER -> 0)

plies_examined(e, g) == Max(rule_plies(e, g), search_plies(e, g))

-----------------------------------------------------------------------------
(* class ThermalMonitor and class ThermalAwareAI (game/thermal_aware_ai.py). *)
(* What psutil.sensors_temperatures() gives is either an exception or a     *)
(* dict, kept here as the sequence of its items: a sensor name, spelled     *)
(* letter by letter, and the current values of its entries in degrees.      *)

Unavailable == [raises |-> TRUE, temps |-> <<>>]
Readings(temps) == [raises |-> FALSE, temps |-> temps]
Sensor(name, entries) == [name |-> name, entries |-> entries]

cpu_prefixes ==
    << <<"c", "p", "u">>, <<"c", "o", "r", "e">>,
       <<"k", "1", "0", "t", "e", "m", "p">>,
       <<"c", "o", "r", "e", "t", "e", "m", "p">> >>

\* str.lower() on the letters the sensor names are spelled with
LowerChar(ch) ==
    CASE ch = "C" -> "c" [] ch = "P" -> "p" [] ch = "U" -> "u"
      [] ch = "O" -> "o" [] ch = "R" -> "r" [] ch = "E" -> "e"
      [] OTHER -> ch

Lower(name) == [i \in 1..Len(name) |-> LowerChar(name[i])]

startswith(name, prefixes) ==
    \E i \in 1..Len(prefixes) :
        /\ Len(prefixes[i]) <= Len(name)
        /\ SubSeq(name, 1, Len(prefixes[i])) = prefixes[i]

RECURSIVE AllEntries(_)
AllEntries(temps) ==
    IF temps = <<>> THEN <<>>
    ELSE temps[1].entries \o AllEntries(Tail(temps))

\* mutant of get_cpu_temperature: a sensor that raises reads as very hot
get_cpu_temperature_hot_default(sensors) ==
    IF sensors.raises \/ sensors.temps = <<>> THEN 1000
    ELSE MaxOf(<<0>> \o AllEntries(sensors.temps))

\* max() of no values raises ValueError, caught like any other exception
get_cpu_temperature(sensors) ==
    IF sensors.raises THEN 0
    ELSE IF sensors.temps = <<>> THEN 0
    ELSE LET temps == sensors.temps
             hit == FirstWhere([i \in 1..Len(temps) |-> i],
                               LAMBDA i : startswith(Lower(temps[i].name),
                                                     cpu_prefixes))
         IN  IF hit # -1
             THEN (IF temps[hit].entries = <<>> THEN 0
                   ELSE MaxOf(temps[hit].entries))
             ELSE (IF AllEntries(temps) = <<>> THEN 0
                   ELSE MaxOf(AllEntries(temps)))

\* what a ThermalAwareAI keeps, and what its current request has done so
\* far: the sensor reads it made, what the last of them saw and the value
\* it gave, the strategy that select_strategy returned, the engines whose
\* find_best_move it called and whether the sensors changed while it was
\* being served
ThermalAwareAI(high_temp_threshold, standard_depth, limited_depth) ==
    [high_temp_threshold |-> high_temp_threshold,
     standard_ai |-> MinimaxEngine(standard_depth),
     limited_ai |-> DepthLimitedMinimax(limited_depth)]

Request(sensors, ai) ==
    [sensors |-> sensors, ai |-> ai, pc |-> "idle", reads |-> 0,
     seen |-> Unavailable, reading |-> 0, strategy |-> "none",
     invoked |-> <<>>, changed |-> FALSE]

NoThermal == Request(Unavailable, ThermalAwareAI(75, 4, 2))

\* thermal_monitor.get_cpu_temperature() called on behalf of the request
Sample(th) ==
    [th EXCEPT !.reads = @ + 1, !.seen = th.sensors,
               !.reading = get_cpu_temperature(th.sensors)]

\* mutant of is_overheating: at or above the threshold
is_overheating_at_threshold(th) == th.reading >= th.ai.high_temp_threshold

\* is_overheating() of the monitor whose reading th.reading is
is_overheating(th) == th.reading > th.ai.high_temp_threshold

select_strategy(th) ==
    LET sampled == Sample(th)
    IN  [sampled EXCEPT !.strategy = IF is_overheating(sampled)
                                     THEN "limited_ai" ELSE "standard_ai"]

\* mutant of Strategy: the temperature is looked at again when the search
\* is started
Strategy_resampled(th) == select_strategy(th)

\* the local variable strategy of ThermalAwareAI.find_best_move
Strategy(th) == th

StrategyEngine(th) ==
    IF th.strategy = "limited_ai" THEN th.ai.limited_ai ELSE th.ai.standard_ai

-----------------------------------------------------------------------------
(* Where a run starts: a new game of some size, or a recorded game replayed *)
(* on it move by move                                                       *)

Starts ==
    { [rows |-> 4, cols |-> 4, moves |-> <<>>],
      [rows |-> 4, cols |-> 4, moves |-> <<0, 1, 1, 2, 2, 3>>],
      [rows |-> 4, cols |-> 4, moves |-> <<3, 2, 2, 1, 1, 0>>],
      [rows |-> 4, cols |-> 4,
       moves |-> <<3, 3, 0, 2, 3, 3, 2, 1, 2, 1, 1, 2>>],
      [rows |-> 5, cols |-> 4, moves |-> <<>>] }

CopyStarts ==
    { [rows |-> 4, cols |-> 4, moves |-> <<>>],
      [rows |-> 4, cols |-> 4, moves |-> <<0, 1, 0, 1, 0>>],
      [rows |-> 4, cols |-> 4,
       moves |-> <<3, 3, 0, 2, 3, 3, 2, 1, 2, 1, 1, 2, 0, 0>>] }

Call(op, who, col, ok) == [op |-> op, who |-> who, col |-> col, ok |-> ok]

\* a game played without the window
NoGui == [game_over |-> FALSE, enabled |-> FALSE, timers |-> 0]

InitGame(starts, moves) ==
    \E s \in starts :
        LET g == Replay(new_game(s.rows, s.cols), s.moves)
        IN  /\ arrays = [id \in ArrayIds |-> IF id = 1 THEN g.board ELSE NoArray]
            /\ game = [g EXCEPT !.board = 1]
            /\ twin = NoGame
            /\ last = Call("new", "game", 0, TRUE)
            /\ budget = moves
            /\ gui = NoGui

InitFrom(starts, moves) == InitGame(starts, moves) /\ thermal = NoThermal

Init == InitFrom(Starts, MaxMoves)

InitCopy == InitFrom(CopyStarts, MaxCopyMoves)

\* the columns a caller may pass: every column, and one off either end
Columns(obj) == (-1)..(obj.cols)

\* obj.make_move(col): the array obj.board refers to is written in place
Moved(obj, col) == make_move(Deref(obj), col)

MakeMove(col) ==
    LET r == Moved(game, col)
    IN  /\ r.ok => budget > 0
        /\ arrays' = [arrays EXCEPT ![game.board] = r.g.board]
        /\ game' = [r.g EXCEPT !.board = game.board]
        /\ last' = Call("make_move", "game", col, r.ok)
        /\ budget' = IF r.ok THEN budget - 1 ELSE budget
        /\ UNCHANGED <<twin, thermal, gui>>

\* game.reset(): np.zeros allocates the new board
Reset ==
    LET id == Alloc(twin)
        g  == reset(Deref(game))
    IN  /\ arrays' = [arrays EXCEPT ![id] = g.board]
        /\ game' = [g EXCEPT !.board = id]
        /\ last' = Call("reset", "game", 0, TRUE)
        /\ UNCHANGED <<twin, budget, thermal, gui>>

\* twin = game.copy(): board.copy() allocates the copy's board
Copy ==
    LET id == Alloc(game)
    IN  /\ arrays' = [arrays EXCEPT ![id] = arrays[game.board]]
        /\ twin' = copy(game, id)
        /\ last' = Call("copy", "game", 0, TRUE)
        /\ UNCHANGED <<game, budget, thermal, gui>>

TwinMakeMove(col) ==
    LET r == Moved(twin, col)
    IN  /\ twin # NoGame
        /\ r.ok => budget > 0
        /\ arrays' = [arrays EXCEPT ![twin.board] = r.g.board]
        /\ twin' = [r.g EXCEPT !.board = twin.board]
        /\ last' = Call("make_move", "twin", col, r.ok)
        /\ budget' = IF r.ok THEN budget - 1 ELSE budget
        /\ UNCHANGED <<game, thermal, gui>>

TwinReset ==
    LET id == Alloc(game)
        g  == reset(Deref(twin))
    IN  /\ twin # NoGame
        /\ arrays' = [arrays EXCEPT ![id] = g.board]
        /\ twin' = [g EXCEPT !.board = id]
        /\ last' = Call("reset", "twin", 0, TRUE)
        /\ UNCHANGED <<game, budget, thermal, gui>>

Next ==
    \/ \E col \in Columns(game) : MakeMove(col)
    \/ Reset

Spec == Init /\ [][Next]_vars

NextCopy ==
    \/ \E col \in Columns(game) : MakeMove(col)
    \/ Reset
    \/ Copy
    \/ \E col \in Columns(game) : TwinMakeMove(col)
    \/ TwinReset

SpecCopy == InitCopy /\ [][NextCopy]_vars

-----------------------------------------------------------------------------
(* The difficulty engines asked for a move in the course of a game.  Every  *)
(* look-ahead of find_best_move runs on game.copy(), so the game it is      *)
(* given stays as it is; the answer is kept in last.                        *)

AIStarts ==
    { [rows |-> 4, cols |-> 4, moves |-> <<2, 3, 3, 0, 2, 3, 0, 1, 2, 0>>],
      [rows |-> 4, cols |-> 4, moves |-> <<2, 3, 2, 1, 1, 3, 2, 1, 0, 3>>],
      [rows |-> 4, cols |-> 4, moves |-> <<1, 3, 0, 1, 1, 0, 2, 3, 0, 3, 0>>],
      [rows |-> 4, cols |-> 4, moves |-> <<0, 1, 0, 1, 0>>] }

InitAI == InitFrom(AIStarts, MaxAIMoves)

\* an array id that holds no array
Unused(store) ==
    CHOOSE id \in ArrayIds :
        /\ store[id] = NoArray
        /\ \A lower \in ArrayIds : store[lower] = NoArray => id <= lower

\* the array store after the loop every find_best_move starts with,
\*     for col in valid_moves: game_copy = game.copy(); game_copy.make_move(col)
\* (deeper look-ahead copies these copies in the same way).  The array of a
\* copy is dropped when the next copy takes its place.
RECURSIVE LookAhead(_, _, _)
LookAhead(store, obj, cols) ==
    IF cols = <<>> THEN store
    ELSE LET id == Unused(store)
             game_copy == copy(obj, id)
             copied == [store EXCEPT ![id] = store[obj.board]]
             moved == make_move([game_copy EXCEPT
                                   !.board = copied[game_copy.board]],
                                Head(cols))
             written == [copied EXCEPT ![game_copy.board] = moved.g.board]
         IN  LookAhead([written EXCEPT ![id] = NoArray], obj, Tail(cols))

\* as in the game loops (game/game_example.py, ui/connect4board.py), the
\* caller asks once and then moves
Answered(who, col) ==
    /\ last.op # "find_best_move"
    /\ last' = Call("find_best_move", who, col, TRUE)
    /\ arrays' = LookAhead(arrays, game, get_valid_columns(Deref(game)))
    /\ UNCHANGED <<game, twin, budget, gui>>

Found(who, col) == Answered(who, col) /\ UNCHANGED thermal

\* what valid_moves[0] can be after random.shuffle(valid_moves)
Firsts(valid_moves) ==
    IF valid_moves = <<>> THEN {-1}
    ELSE {valid_moves[i] : i \in 1..Len(valid_moves)}

EasyFind ==
    LET g == Deref(game)
        valid_moves == get_valid_columns(g)
        \* the columns at which the 0.8 draw is made
        threats == {col \in Firsts(valid_moves) : col >= 0 /\ BlocksWin(g, col)}
    IN  \E blocks \in SUBSET threats, lucky \in BOOLEAN :
            \E pick \in (IF lucky THEN 1..Max(1, Len(valid_moves)) ELSE {1}),
               first \in (IF lucky THEN {-1} ELSE Firsts(valid_moves)) :
                Found("EasyAI",
                      EasyAI_find_best_move(g, blocks, lucky, pick, first))

MediumFind ==
    \E sub \in BOOLEAN, first \in Firsts(get_valid_columns(Deref(game))) :
        Found("MediumAI", MediumAI_find_best_move(Deref(game), sub, first))

HardFind == Found("HardAI", HardAI_find_best_move(Deref(game)))

NextAI ==
    \/ \E col \in 0..(game.cols - 1) : MakeMove(col)
    \/ EasyFind
    \/ MediumFind
    \/ HardFind

SpecAI == InitAI /\ [][NextAI]_vars

-----------------------------------------------------------------------------
(* Every way the program asks for a move: the two search engines, the three *)
(* difficulty engines, computer_move and ThermalAwareAI.                    *)

\* the random draws one find_best_move call can make
Draws(e, g) ==
    LET valid_moves == get_valid_columns(g)
        threats == {col \in Firsts(valid_moves) : col >= 0 /\ BlocksWin(g, col)}
        Draw(blocks, lucky, pick, sub, first) ==
            [blocks |-> blocks, lucky |-> lucky, pick |-> pick, sub |-> sub,
             first |-> first]
    IN  CASE e.kind = "EasyAI" ->
               UNION {{Draw(blocks, FALSE, 1, FALSE, first) :
                           first \in Firsts(valid_moves)}
                      \cup {Draw(blocks, TRUE, pick, FALSE, -1) :
                               pick \in 1..Max(1, Len(valid_moves))} :
                      blocks \in SUBSET threats}
          [] e.kind = "MediumAI" ->
               {Draw({}, FALSE, 1, sub, first) :
                    sub \in BOOLEAN, first \in Firsts(valid_moves)}
          [] e.kind = "HardAI" -> {Draw({}, FALSE, 1, FALSE, -1)}
          [] OTHER ->
               {Draw({}, FALSE, 1, FALSE, first) : first \in Firsts(valid_moves)}

\* e.find_best_move(g), by the class of e
find_best_move(e, g, r) ==
    CASE e.kind = "EasyAI" ->
           EasyAI_find_best_move(g, r.blocks, r.lucky, r.pick, r.first)
      [] e.kind = "MediumAI" -> MediumAI_find_best_move(g, r.sub, r.first)
      [] e.kind = "HardAI" -> HardAI_find_best_move(g)
      [] OTHER -> MinimaxEngine_find_best_move(e, g, r.first)

get_ai_by_difficulty(difficulty) ==
    CASE difficulty = "easy" -> EasyAI
      [] difficulty = "medium" -> MediumAI
      [] difficulty = "hard" -> HardAI
      [] OTHER -> MediumAI

\* the game computer_move hands to the engine: the one it was given, or a
\* copy of it on which it is Player.TWO's turn
Handed(g) == IF g.current_player # TWO THEN [g EXCEPT !.current_player = TWO]
             ELSE g

computer_move(g, difficulty, r) ==
    IF is_game_over(g) THEN -1
    ELSE find_best_move(get_ai_by_difficulty(difficulty), Handed(g), r)

Difficulties == {"easy", "medium", "hard", "expert"}

MinimaxFind ==
    \E r \in Draws(MinimaxEngine(4), Deref(game)) :
        Found("MinimaxEngine",
              find_best_move(MinimaxEngine(4), Deref(game), r))

DepthLimitedFind ==
    \E r \in Draws(DepthLimitedMinimax(2), Deref(game)) :
        Found("DepthLimitedMinimax",
              find_best_move(DepthLimitedMinimax(2), Deref(game), r))

\* computer_move(game, difficulty).  When it is not Player.TWO's turn the
\* engine works on game_copy, whose array is dropped on return.
ComputerMove(difficulty) ==
    LET g == Deref(game)
        id == Unused(arrays)
        copies == ~is_game_over(g) /\ g.current_player # TWO
        game_copy == IF copies THEN [copy(game, id) EXCEPT !.current_player = TWO]
                     ELSE game
        copied == IF copies THEN [arrays EXCEPT ![id] = arrays[game.board]]
                  ELSE arrays
        searched == IF is_game_over(g) THEN copied
                    ELSE LookAhead(copied, game_copy,
                                   get_valid_columns(Handed(g)))
    IN  \E r \in Draws(get_ai_by_difficulty(difficulty), Handed(g)) :
            /\ last.op # "find_best_move"
            /\ last' = Call("find_best_move", "computer_move",
                            computer_move(g, difficulty, r), TRUE)
            /\ arrays' = [searched EXCEPT ![id] = NoArray]
            /\ UNCHANGED <<game, twin, budget, thermal, gui>>

\* ThermalAwareAI.find_best_move, first statement: strategy =
\* self.select_strategy()
ThermalSelect ==
    /\ thermal.pc = "idle"
    /\ last.op # "find_best_move"
    /\ thermal' = [select_strategy([thermal EXCEPT !.reads = 0,
                                                   !.invoked = <<>>,
                                                   !.changed = FALSE])
                     EXCEPT !.pc = "selected"]
    /\ UNCHANGED <<arrays, game, twin, last, budget, gui>>

\* ThermalAwareAI.find_best_move, second statement: return
\* strategy.find_best_move(game)
ThermalSearch ==
    /\ thermal.pc = "selected"
    /\ LET th == Strategy(thermal)
           e == StrategyEngine(th)
       IN  \E r \in Draws(e, Deref(game)) :
               /\ Answered("ThermalAwareAI",
                           find_best_move(e, Deref(game), r))
               /\ thermal' = [th EXCEPT !.pc = "idle",
                                        !.invoked = Append(@, th.strategy)]

\* the temperature moves while the program runs
SensorStates ==
    { Unavailable,
      Readings(<<>>),
      Readings(<< Sensor(<<"a", "c", "p", "i", "t", "z">>, <<90>>),
                  Sensor(<<"C", "o", "r", "e", "t", "e", "m", "p">>, <<40, 75>>) >>),
      Readings(<< Sensor(<<"c", "p", "u">>, <<76, 60>>) >>),
      Readings(<< Sensor(<<"k", "1", "0", "t", "e", "m", "p">>, <<>>),
                  Sensor(<<"n", "v", "m", "e">>, <<80>>) >>),
      Readings(<< Sensor(<<"n", "v", "m", "e">>, <<30>>),
                  Sensor(<<"a", "c", "p", "i", "t", "z">>, <<74>>) >>) }

SensorChange ==
    \E sensors \in SensorStates :
        /\ sensors # thermal.sensors
        /\ thermal' = [thermal EXCEPT !.sensors = sensors,
                                      !.changed = @ \/ thermal.pc = "selected"]
        /\ UNCHANGED <<arrays, game, twin, last, budget, gui>>

EngineStarts ==
    { [rows |-> 4, cols |-> 4,
       moves |-> <<0, 2, 0, 2, 3, 0, 3, 2, 3, 0, 2, 1, 1, 1>>],
      [rows |-> 4, cols |-> 4, moves |-> <<2, 3, 2, 1, 1, 3, 2, 1, 0, 3>>],
      [rows |-> 4, cols |-> 4, moves |-> <<1, 3, 0, 1, 1, 0, 2, 3, 0, 3, 0>>],
      [rows |-> 4, cols |-> 4, moves |-> <<2, 3, 3, 0, 2, 3, 0, 1, 2, 0>>],
      [rows |-> 4, cols |-> 4, moves |-> <<1, 1, 2, 1, 2, 1, 3, 2, 3, 0, 0>>],
      [rows |-> 4, cols |-> 4, moves |-> <<3, 0, 0, 3, 2, 0, 0, 3, 3, 1, 2>>] }

\* the machine is cool in one run and hot in the other
InitEngines ==
    /\ InitGame(EngineStarts, MaxEngineMoves)
    /\ \E sensors \in {Readings(<<Sensor(<<"c", "p", "u">>, <<temp>>)>>) :
                          temp \in {40, 90}} :
           thermal = Request(sensors, ThermalAwareAI(75, 4, 2))

\* a request is served before the caller does anything else
NextEngines ==
    \/ thermal.pc = "idle" /\ \E col \in 0..(game.cols - 1) : MakeMove(col)
    \/ thermal.pc = "idle" /\ EasyFind
    \/ thermal.pc = "idle" /\ MediumFind
    \/ thermal.pc = "idle" /\ HardFind
    \/ thermal.pc = "idle" /\ MinimaxFind
    \/ thermal.pc = "idle" /\ DepthLimitedFind
    \/ thermal.pc = "idle" /\ \E difficulty \in Difficulties :
                                  ComputerMove(difficulty)
    \/ ThermalSelect
    \/ ThermalSearch

SpecEngines == InitEngines /\ [][NextEngines]_vars

-----------------------------------------------------------------------------
(* ThermalAwareAI asked for moves while the temperature goes up and down.   *)

ThermalStarts ==
    { [rows |-> 4, cols |-> 4, moves |-> <<2, 3, 2, 1, 1, 3, 2, 1, 0, 3>>],
      [rows |-> 4, cols |-> 4, moves |-> <<1, 3, 0, 1, 1, 0, 2, 3, 0, 3, 0>>] }

Thresholds == {75, 60}

InitThermal ==
    /\ InitGame(ThermalStarts, MaxThermalMoves)
    /\ \E sensors \in SensorStates, high_temp_threshold \in Thresholds :
           thermal = Request(sensors, ThermalAwareAI(high_temp_threshold, 4, 2))

NextThermal ==
    \/ thermal.pc = "idle" /\ \E col \in 0..(game.cols - 1) : MakeMove(col)
    \/ ThermalSelect
    \/ ThermalSearch
    \/ SensorChange

SpecThermal == InitThermal /\ [][NextThermal]_vars

-----------------------------------------------------------------------------
(* The search on its own: _minimax called with the full window, as          *)
(* find_best_move calls it, on the positions of a game in progress.         *)

SearchStarts ==
    { [rows |-> 4, cols |-> 4, moves |-> <<1, 2, 2, 1, 3, 0, 0, 3>>],
      [rows |-> 4, cols |-> 4, moves |-> <<2, 3, 3, 0, 2, 3, 0, 1, 2, 0>>],
      [rows |-> 4, cols |-> 5, moves |-> <<1, 0, 3, 4, 1, 0, 3, 4, 2>>],
      [rows |-> 2, cols |-> 8,
       moves |-> <<1, 0, 6, 5, 6, 2, 2, 1, 3, 4, 4, 5, 3>>] }

InitSearch == InitFrom(SearchStarts, MaxSearchMoves)

SearchEngines ==
    {MinimaxEngine(4), DepthLimitedMinimax(2), EasyAI, MediumAI, HardAI}

Probe(op, who, args, value) ==
    [op |-> op, who |-> who, args |-> args, value |-> value]

\* one question is put about each position as it is reached
Evaluate(e, depth, is_maximizing) ==
    /\ last.op \in {"new", "make_move"}
    /\ last' = Probe("_minimax", e, <<depth, is_maximizing>>,
                     _minimax(e, Deref(game), depth, is_maximizing,
                              NegInf, PosInf))
    /\ UNCHANGED <<arrays, game, twin, budget, thermal, gui>>

\* MinimaxEngine(max_depth).find_best_move(game)
Root(max_depth, first) ==
    /\ last.op \in {"new", "make_move"}
    /\ last' = Probe("find_best_move", MinimaxEngine(max_depth), <<first>>,
                     MinimaxEngine_find_best_move(MinimaxEngine(max_depth),
                                                  Deref(game), first))
    /\ UNCHANGED <<arrays, game, twin, budget, thermal, gui>>

NextSearch ==
    \/ \E col \in 0..(game.cols - 1) : MakeMove(col)
    \/ \E e \in SearchEngines, depth \in 0..MaxDepth, is_maximizing \in BOOLEAN :
           Evaluate(e, depth, is_maximizing)
    \/ \E max_depth \in 1..MaxDepth,
          first \in Firsts(get_valid_columns(Deref(game))) :
           Root(max_depth, first)

SpecSearch == InitSearch /\ [][NextSearch]_vars

-----------------------------------------------------------------------------
(* Vocabulary of the properties *)

G == Deref(game)
T == Deref(twin)

CellsOf(g) == (0..(g.rows - 1)) \X (0..(g.cols - 1))

Pieces(g, p) == Cardinality({rc \in CellsOf(g) : g.board[rc[1]][rc[2]] = p})

Full(g) == \A rc \in CellsOf(g) : g.board[rc[1]][rc[2]] # EMPTY

ColumnFull(g, col) == \A row \in 0..(g.rows - 1) : g.board[row][col] # EMPTY

LowestEmpty(g, col) ==
    CHOOSE row \in 0..(g.rows - 1) :
        /\ g.board[row][col] = EMPTY
        /\ \A below \in (row + 1)..(g.rows - 1) : g.board[below][col] # EMPTY

Directions == {<<0, 1>>, <<1, 0>>, <<1, 1>>, <<1, -1>>}

\* player p holds four cells in a row somewhere on the board
HasFour(g, p) ==
    \E rc \in CellsOf(g), d \in Directions :
        \A k \in 0..3 :
            /\ <<rc[1] + k * d[1], rc[2] + k * d[2]>> \in CellsOf(g)
            /\ g.board[rc[1] + k * d[1]][rc[2] + k * d[2]] = p

Terminal(g) == HasFour(g, ONE) \/ HasFour(g, TWO) \/ Full(g)

\* player p holds four cells in a row that include the cell (row, col)
FourThrough(g, p, row, col) ==
    \E rc \in CellsOf(g), d \in Directions :
        /\ \A k \in 0..3 :
               /\ <<rc[1] + k * d[1], rc[2] + k * d[2]>> \in CellsOf(g)
               /\ g.board[rc[1] + k * d[1]][rc[2] + k * d[2]] = p
        /\ \E k \in 0..3 : <<rc[1] + k * d[1], rc[2] + k * d[2]>> = <<row, col>>

\* the columns in which a piece of player p, dropped now, completes four in
\* a row
WinningColumns(g, p) ==
    {col \in 0..(g.cols - 1) :
        /\ ~ColumnFull(g, col)
        /\ FourThrough([g EXCEPT !.board[LowestEmpty(g, col)][col] = p], p,
                       LowestEmpty(g, col), col)}

Mover == G.current_player

Asked(engines) == last.op = "find_best_move" /\ last.who \in engines

\* the four things a caller can observe of a game object
Observed(g) == <<g.board, g.current_player, g.move_count, g.last_move>>

GameMoveStep == last'.op = "make_move" /\ last'.who = "game"

-----------------------------------------------------------------------------
(* C1 *)

\* C1: in every position that is not over and in which the player to move
\* has a column that completes four in a row at once, find_best_move of
\* EasyAI, MediumAI and HardAI returns such a column, whatever the
\* opponent's threats and whatever the random draws.
C1_ImmediateWinTaken ==
    (/\ Asked({"EasyAI", "MediumAI", "HardAI"})
     /\ ~Terminal(G)
     /\ WinningColumns(G, Mover) # {}) =>
        last.col \in WinningColumns(G, Mover)

-----------------------------------------------------------------------------
(* C2 *)

-----------------------------------------------------------------------------
(* C3 *)

\* C3 (as claimed): once a player has four in a row or the board is full,
\* get_valid_columns is empty and every make_move returns False and changes
\* nothing.
C3_TerminalAbsorbing ==
    [][(GameMoveStep /\ Terminal(G)) =>
          /\ get_valid_columns(G) = <<>>
          /\ ~last'.ok
          /\ Observed(G') = Observed(G)]_vars

\* C3 (amended): once the board is full, get_valid_columns is empty and
\* every make_move returns False and leaves board, current player, move
\* counter and last move unchanged; four in a row alone stops nothing: the
\* open columns stay listed as valid.
C3_FullBoardAbsorbing ==
    [][(GameMoveStep /\ Full(G)) =>
          /\ get_valid_columns(G) = <<>>
          /\ ~last'.ok
          /\ Observed(G') = Observed(G)]_vars

C3_Witness ==
    /\ last.op = "make_move" /\ last.col \in 0..(G.cols - 1) /\ ~last.ok
    /\ Full(G)

-----------------------------------------------------------------------------
(* C4 *)

\* C4: make_move with a column below 0, at or above the column count, or
\* naming a full column returns False and leaves board, current player,
\* move counter and last move as they were.
C4_InvalidMoveRejected ==
    [][(/\ GameMoveStep
        /\ \/ last'.col < 0
           \/ last'.col >= G.cols
           \/ ColumnFull(G, last'.col)) =>
          /\ ~last'.ok
          /\ Observed(G') = Observed(G)]_vars

C4_Witness ==
    /\ last.op = "make_move" /\ ~last.ok
    /\ last.col \in 0..(G.cols - 1)
    /\ ColumnFull(G, last.col) /\ ~Full(G)

-----------------------------------------------------------------------------
(* C5 *)

\* C5: gravity: every non-empty cell has only non-empty cells below it in
\* its column, in every state reached by make_move calls and resets.
C5_Gravity ==
    \A rc \in CellsOf(G) :
        G.board[rc[1]][rc[2]] # EMPTY =>
            \A below \in (rc[1] + 1)..(G.rows - 1) : G.board[below][rc[2]] # EMPTY

C5_Witness ==
    /\ last.op = "make_move" /\ last.ok
    /\ G.last_move[1] < G.rows - 1

-----------------------------------------------------------------------------
(* C6 *)

\* C6: the move counter of every game object equals the number of
\* non-empty cells of its board, after any make_move, copy and reset.
C6_CountMatchesBoard ==
    /\ game.move_count = Pieces(G, ONE) + Pieces(G, TWO)
    /\ twin # NoGame => twin.move_count = Pieces(T, ONE) + Pieces(T, TWO)

C6_Witness ==
    /\ last.op = "reset" /\ last.who = "game"
    /\ twin # NoGame /\ twin.move_count > game.move_count

-----------------------------------------------------------------------------
(* C7 *)

PieceBalance(g) == Pieces(g, ONE) - Pieces(g, TWO) \in {0, 1}

\* C7: a successful make_move puts the piece of the player to move in the
\* lowest empty cell of the column and hands the turn to the other player;
\* pieces go down in the order ONE, TWO, ONE, ... and ONE has as many
\* pieces as TWO or one more.
C7_TurnsAlternate ==
    /\ [](PieceBalance(G))
    /\ [][(GameMoveStep /\ last'.ok) =>
            /\ G'.board = [G.board EXCEPT
                             ![LowestEmpty(G, last'.col)][last'.col] =
                                 G.current_player]
            /\ G.current_player = (IF G.move_count % 2 = 0 THEN ONE ELSE TWO)
            /\ G'.current_player = Opponent(G.current_player)]_vars

C7_Witness ==
    /\ last.op = "make_move" /\ last.ok
    /\ G.current_player = ONE /\ G.move_count >= 2
    /\ G.last_move[1] < G.rows - 1

-----------------------------------------------------------------------------
(* C8 *)

\* C8 (as claimed): after a successful make_move a winner reported by
\* check_win is the player who moved, not the player now to move.
C8_WinnerIsMover ==
    (last.op = "make_move" /\ last.ok /\ check_win(G) # None) =>
        check_win(G) # G.current_player

\* C8 (amended): after a successful make_move made while no player had four
\* in a row, a winner reported by check_win is the player who moved.
C8_WinnerIsMoverOfFirstWin ==
    [][(GameMoveStep /\ last'.ok /\ check_win(G) = None
          /\ check_win(G') # None) =>
          check_win(G') = G.current_player]_vars

C8_Witness ==
    /\ last.op = "make_move" /\ last.ok
    /\ check_win(G) = Opponent(G.current_player)
    /\ check_win([G EXCEPT !.board[G.last_move[1]][G.last_move[2]] = EMPTY])
           = None

-----------------------------------------------------------------------------
(* C9 *)

\* C9: a full board on which neither player has four in a row is a draw:
\* is_draw and is_game_over are true and check_win returns None.
C9_FullBoardIsDraw ==
    (Full(G) /\ ~HasFour(G, ONE) /\ ~HasFour(G, TWO)) =>
        /\ is_draw(G)
        /\ is_game_over(G)
        /\ check_win(G) = None

C9_Witness ==
    /\ Full(G) /\ ~HasFour(G, ONE) /\ ~HasFour(G, TWO)
    /\ last.op = "make_move" /\ last.ok

-----------------------------------------------------------------------------
(* C10 *)

\* C10: copy() returns an object equal to the original in board, current
\* player, move counter and last move, and no make_move or reset on the
\* copy changes any of those in the original, nor the other way round.
C10_CopyIsolated ==
    [][/\ last'.op = "copy" =>
            Observed(T') = Observed(G) /\ Observed(G') = Observed(G)
       /\ (last'.op \in {"make_move", "reset"} /\ last'.who = "twin") =>
            Observed(G') = Observed(G)
       /\ (last'.op \in {"make_move", "reset"} /\ last'.who = "game"
             /\ twin # NoGame) =>
            Observed(T') = Observed(T)]_vars

C10_Witness ==
    /\ last.op = "make_move" /\ last.who = "twin" /\ last.ok
    /\ twin.move_count > 0 /\ game.move_count > 0
    /\ T.board # G.board

-----------------------------------------------------------------------------
\* C11: asking for a move (find_best_move of MinimaxEngine,
\* DepthLimitedMinimax, EasyAI, MediumAI, HardAI and ThermalAwareAI, and
\* computer_move) leaves the game it is given as it was: same board, same
\* current player, same move counter, same last move.
C11_SearchLeavesGame ==
    [][last'.op = "find_best_move" \/ thermal' # thermal
          => Observed(G') = Observed(G)]_vars

\* computer_move answers on a game where it is Player.ONE's turn, the case
\* in which it searches a copy with the turn switched
C11_Witness ==
    /\ Asked({"computer_move"})
    /\ Mover = ONE /\ ~is_game_over(G)
    /\ is_valid_move(G, last.col)

-----------------------------------------------------------------------------
\* the recursion of _minimax with the "if beta <= alpha: break" lines taken
\* out: every valid column is searched and alpha and beta play no part
RECURSIVE Exhaustive(_, _, _, _)
Exhaustive(e, g, depth, is_maximizing) ==
    LET winner == check_win(g)
        valid_moves == SelectSeq(column_order,
                                 LAMBDA col : InList(col, get_valid_columns(g)))
        scores == <<>> \o [i \in 1..Len(valid_moves) |->
                     Exhaustive(e, After(g, valid_moves[i]), depth - 1,
                                ~is_maximizing)]
    IN  IF winner # None THEN
            IF winner = 3 - g.current_player THEN 1000000 ELSE -1000000
        ELSE IF is_draw(g) THEN 0
        ELSE IF depth = 0 THEN
            _score_position(e, g, IF is_maximizing THEN TWO ELSE ONE)
        ELSE IF is_maximizing THEN MaxOf(<<NegInf>> \o scores)
        ELSE -MaxOf(<<NegInf>> \o [i \in 1..Len(scores) |-> -scores[i]])

\* C12: called with alpha = -infinity and beta = +infinity, _minimax returns
\* the value the same recursion returns without the beta <= alpha cut-off,
\* at every position and depth and for either side.
C12_PruningKeepsValue ==
    last.op = "_minimax" =>
        last.value = Exhaustive(last.who, G, last.args[1], last.args[2])

\* a maximizing search in which a cut-off is made: with the alpha its earlier
\* sisters have raised, the call made for some column stops early and comes
\* back with another value than the full search of that column
C12_Witness ==
    /\ last.op = "_minimax" /\ last.args[1] = MaxDepth /\ last.args[2]
    /\ ~Terminal(G)
    /\ LET e == last.who
           depth == last.args[1]
           order == SelectSeq(column_order,
                              LAMBDA col : InList(col, get_valid_columns(G)))
           full == <<>> \o [i \in 1..Len(order) |->
                     Exhaustive(e, After(G, order[i]), depth - 1, FALSE)]
       IN  \E i \in 1..Len(order) :
               _minimax(e, After(G, order[i]), depth - 1, FALSE,
                        MaxOf(<<NegInf>> \o SubSeq(full, 1, i - 1)), PosInf)
                   # full[i]

-----------------------------------------------------------------------------
\* the score the search of engine e gives column col at the root
RootScore(e, g, col) ==
    _minimax(e, After(g, col), e.max_depth - 1, FALSE, NegInf, PosInf)

\* the valid columns of g in the order center, center-1, center+1, ... of
\* its own width
CenterOutValid(g) ==
    SelectSeq(_get_center_prioritized_columns(g.cols),
              LAMBDA col : InList(col, get_valid_columns(g)))

\* the first of them that has the best root score
CenterOutBest(e, g) ==
    LET order == CenterOutValid(g)
        scores == <<>> \o [i \in 1..Len(order) |-> RootScore(e, g, order[i])]
    IN  order[FirstWhere([i \in 1..Len(order) |-> i],
                         LAMBDA i : scores[i] = MaxOf(scores))]

\* C13: when several columns share the best search score, the search step
\* (MinimaxEngine.find_best_move, and the final ranking of
\* HardAI.find_best_move when none of its priorities applies) returns the
\* one that comes first in the order center, center-1, center+1, ...
C13_TiesGoCenterOut ==
    /\ Asked({"MinimaxEngine"}) /\ ~is_game_over(G)
           => last.col = CenterOutBest(MinimaxEngine(4), G)
    /\ Asked({"HardAI"}) /\ ~is_game_over(G) /\ HardAI_priorities(G) = -1
           => last.col = CenterOutBest(HardAI, G)

-----------------------------------------------------------------------------
\* C14: a ThermalAwareAI.find_best_move request reads the temperature
\* exactly once and calls find_best_move of exactly one engine, the
\* reduced-depth one if that reading was overheating and the standard one
\* otherwise, and the move it returns is that engine's, whatever the
\* temperature does while the search runs.
C14_OneSampleOneEngine ==
    /\ thermal.pc = "selected" => thermal.reads = 1 /\ thermal.invoked = <<>>
    /\ Asked({"ThermalAwareAI"}) =>
          /\ thermal.pc = "idle" /\ thermal.reads = 1
          /\ thermal.invoked =
                 <<IF thermal.reading > thermal.ai.high_temp_threshold
                   THEN "limited_ai" ELSE "standard_ai">>
          /\ \E r \in Draws(StrategyEngine(thermal), G) :
                 last.col = find_best_move(StrategyEngine(thermal), G, r)

\* a request served by the standard engine although the machine became hot
\* while it was searching
C14_Witness ==
    /\ Asked({"ThermalAwareAI"}) /\ ~is_game_over(G)
    /\ thermal.changed /\ thermal.invoked = <<"standard_ai">>
    /\ get_cpu_temperature(thermal.sensors) > thermal.ai.high_temp_threshold

-----------------------------------------------------------------------------
\* C15: is_overheating() is true exactly when the reading is at or above
\* the configured threshold, a reading equal to the threshold included; so
\* the reduced-depth engine is selected exactly on such readings.
C15_OverheatingFromThreshold ==
    thermal.reads > 0 =>
        (thermal.strategy = "limited_ai"
            <=> thermal.reading >= thermal.ai.high_temp_threshold)

-----------------------------------------------------------------------------
\* psutil gives nothing to read: it raises, it returns no sensors, or the
\* sensor get_cpu_temperature settles on has no entries (max() then raises)
NothingToRead(sensors) ==
    \/ sensors.raises
    \/ sensors.temps = <<>>
    \/ \E i \in 1..Len(sensors.temps) :
           /\ sensors.temps[i].entries = <<>>
           /\ startswith(Lower(sensors.temps[i].name), cpu_prefixes)
           /\ \A j \in 1..(i - 1) :
                  ~startswith(Lower(sensors.temps[j].name), cpu_prefixes)

\* C16: when the sensor is unavailable or reading it raises, the reading is
\* the default 0, is_overheating() is false, and the request still returns
\* a move, found by the standard-depth engine.
C16_SensorFailureMeansStandard ==
    thermal.reads > 0 /\ NothingToRead(thermal.seen) =>
        /\ thermal.reading = 0
        /\ thermal.strategy = "standard_ai"
        /\ Asked({"ThermalAwareAI"}) =>
              /\ thermal.invoked = <<"standard_ai">>
              /\ \E r \in Draws(thermal.ai.standard_ai, G) :
                     last.col = find_best_move(thermal.ai.standard_ai, G, r)
              /\ ~is_game_over(G) => is_valid_move(G, last.col)

\* a request answered with a legal move although psutil raised
C16_Witness ==
    /\ Asked({"ThermalAwareAI"}) /\ ~is_game_over(G)
    /\ thermal.seen = Unavailable /\ thermal.reads = 1
    /\ is_valid_move(G, last.col)

-----------------------------------------------------------------------------
\* C17: asked on a game that is already over (a four in a row, or the board
\* full), no engine returns a column that make_move would accept.
C17_NoColumnWhenGameOver ==
    last.op = "find_best_move" /\ is_game_over(G) => ~make_move(G, last.col).ok

-----------------------------------------------------------------------------
-----------------------------------------------------------------------------
\* the board is its own left-right mirror image
MirrorSymmetric(g) ==
    \A rc \in CellsOf(g) :
        g.board[rc[1]][rc[2]] = g.board[rc[1]][g.cols - 1 - rc[2]]

\* C19: on a mirror-symmetric board the root score MinimaxEngine gives a
\* legal column c equals the score of its mirror column cols-1-c, and
\* find_best_move returns the center column or the left member of a mirror
\* pair, never the right member.
C19_MirrorSymmetry ==
    last.op = "find_best_move" /\ MirrorSymmetric(G) /\ ~is_game_over(G) =>
        /\ \A col \in 0..(G.cols - 1) :
               is_valid_move(G, col) =>
                   RootScore(last.who, G, col)
                       = RootScore(last.who, G, G.cols - 1 - col)
        /\ 2 * last.value <= G.cols - 1

-----------------------------------------------------------------------------
\* the engines that can have given the answer in last, and the game they
\* were given
Answering ==
    CASE last.who = "EasyAI" -> {EasyAI}
      [] last.who = "MediumAI" -> {MediumAI}
      [] last.who = "HardAI" -> {HardAI}
      [] last.who = "MinimaxEngine" -> {MinimaxEngine(4)}
      [] last.who = "DepthLimitedMinimax" -> {DepthLimitedMinimax(2)}
      [] last.who = "ThermalAwareAI" -> {StrategyEngine(thermal)}
      [] last.who = "computer_move" ->
             IF is_game_over(G) THEN {}
             ELSE {get_ai_by_difficulty(d) : d \in Difficulties}
      [] OTHER -> {}

Given == IF last.who = "computer_move" THEN Handed(G) ELSE G

-----------------------------------------------------------------------------
\* C21: in every position that is not over and in which the player to move
\* has a column that completes four in a row at once,
\* MinimaxEngine.find_best_move, and so ThermalAwareAI.find_best_move with
\* either of its engines, returns such a column.
C21_RootWinTaken ==
    (/\ Asked({"MinimaxEngine", "DepthLimitedMinimax", "ThermalAwareAI"})
     /\ ~Terminal(G)
     /\ WinningColumns(G, Mover) # {}) =>
        last.col \in WinningColumns(G, Mover)


\* the player on whose behalf a node of the search is scored: the player to
\* move at a maximizing node, the other player at a minimizing node
Maximizer == IF last.args[2] THEN Mover ELSE 3 - Mover

Scored(engines) == last.op = "_minimax" /\ last.who.kind \in engines

EngineKinds ==
    {"MinimaxEngine", "DepthLimitedMinimax", "EasyAI", "MediumAI", "HardAI"}

\* C22: _minimax gives a large negative score to a position in which the
\* opponent of the maximizing player has four in a row, a large positive
\* score only to a four in a row of the maximizing player, and 0 to a full
\* board without a winner.
C22_TerminalScoreSign ==
    Scored(EngineKinds) =>
        /\ (HasFour(G, 3 - Maximizer) /\ ~HasFour(G, Maximizer)) =>
               last.value <= -1000000
        /\ (Terminal(G) /\ last.value >= 1000000) => HasFour(G, Maximizer)
        /\ (Full(G) /\ ~HasFour(G, ONE) /\ ~HasFour(G, TWO)) => last.value = 0


\* what the engine asked returns for the same position one ply deeper in
\* the search, i.e. with one ply less left to look ahead
OnePlyLater ==
    _minimax(last.who, G, last.args[1] - 1, last.args[2], NegInf, PosInf)

\* C23: in _minimax a win of the maximizing player reached after fewer plies
\* scores strictly higher than the same win reached after more plies, and a
\* loss reached later scores strictly higher than a loss reached sooner.
C23_FasterWinScoresHigher ==
    (Scored(EngineKinds) /\ last.args[1] >= 1) =>
        /\ (HasFour(G, Maximizer) /\ ~HasFour(G, 3 - Maximizer)) =>
               last.value > OnePlyLater
        /\ (HasFour(G, 3 - Maximizer) /\ ~HasFour(G, Maximizer)) =>
               last.value < OnePlyLater


\* C24: when _minimax reaches depth 0 on a position that is not over, it
\* returns the position score of the maximizing player, whichever of the two
\* players that is.
C24_HeuristicForMaximizer ==
    (Scored(EngineKinds) /\ last.args[1] = 0 /\ ~Terminal(G)) =>
        last.value = _score_position(last.who, G, Maximizer)


\* the windows of four of a board: first cell and direction
WindowsOf(g) ==
    {w \in CellsOf(g) \X Directions :
        \A k \in 0..3 :
            <<w[1][1] + k * w[2][1], w[1][2] + k * w[2][2]>> \in CellsOf(g)}

Lined == {<<0, 1>>, <<1, 0>>}

\* a board that consists of one window and nothing else
Alone(window, d) ==
    IF d = <<0, 1>>
    THEN [rows |-> 1, cols |-> 4,
          board |-> [row \in {0} |-> [col \in 0..3 |-> window[col + 1]]]]
    ELSE [rows |-> 4, cols |-> 1,
          board |-> [row \in 0..3 |-> [col \in {0} |-> window[row + 1]]]]

\* what one window adds to the position score that engine e computes for
\* player.  The reduced-depth engine has no _evaluate_window of its own
\* making: its term is read off its score of the window alone.
Contribution(e, window, d, player) ==
    IF e.kind = "DepthLimitedMinimax"
    THEN _score_position(e, Alone(window, d), player)
    ELSE _evaluate_window(e, window, player)

\* the windows the scoring loops of engine e walk over
Scanned(e, g) ==
    {w \in WindowsOf(g) : e.kind = "DepthLimitedMinimax" => w[2] \in Lined}

\* C25: in the position score of every engine a window with three opponent
\* pieces and one empty cell lowers the score by more than the same window
\* with three own pieces raises it, and a window with pieces of both players
\* adds 0.
C25_BlockingOutweighsAdvancing ==
    (Scored(EngineKinds) /\ last.args[1] = 0) =>
        \A w \in Scanned(last.who, G), player \in {ONE, TWO} :
            LET window == Window(G, w[1][1], w[1][2], w[2][1], w[2][2])
                mine == Contribution(last.who, window, w[2], player)
                theirs == Contribution(last.who, window, w[2], 3 - player)
            IN  /\ (Count(window, 3 - player) = 3 /\ Count(window, EMPTY) = 1)
                       => (mine < 0 /\ 0 < theirs /\ theirs < -mine)
                /\ (Count(window, ONE) > 0 /\ Count(window, TWO) > 0)
                       => mine = 0


\* the board with a piece of player p dropped into column col
Placed(g, col, p) == [g EXCEPT !.board[LowestEmpty(g, col)][col] = p]

\* the columns after which player p has two or more columns that complete
\* four in a row: the moves that make a fork
ForkColumns(g, p) ==
    {col \in 0..(g.cols - 1) :
        /\ ~ColumnFull(g, col)
        /\ Cardinality(WinningColumns(Placed(g, col, p), p)) >= 2}

Quiet(g) ==
    /\ ~Terminal(g)
    /\ WinningColumns(g, ONE) = {}
    /\ WinningColumns(g, TWO) = {}

\* C26: when neither player can win at once and the player to move has a
\* column that makes a fork, MediumAI.find_best_move and
\* HardAI.find_best_move return such a column.
C26_ForkTaken ==
    (/\ Asked({"MediumAI", "HardAI"})
     /\ Quiet(G)
     /\ ForkColumns(G, Mover) # {}) =>
        last.col \in ForkColumns(G, Mover)


\* the legal columns after which the opponent of player p has no reply that
\* makes a fork
ForkSafe(g, p) ==
    {col \in 0..(g.cols - 1) :
        /\ ~ColumnFull(g, col)
        /\ ForkColumns(Placed(g, col, p), 3 - p) = {}}

\* HardAI answered from its fourth priority: no earlier rule applies in a
\* position where nobody can win at once and the mover has no fork
FromForkBlocking ==
    /\ Asked({"HardAI"})
    /\ Quiet(G)
    /\ ForkColumns(G, Mover) = {}
    /\ HardAI_priorities(G) # -1

\* C27: a column that HardAI.find_best_move returns from its fork-blocking
\* rule leaves the opponent no reply that makes a fork, provided some legal
\* column does.
C27_ForkBlocked ==
    (FromForkBlocking /\ ForkSafe(G, Mover) # {}) =>
        last.col \in ForkSafe(G, Mover)


\* the legal columns after which the opponent of player p has no column
\* that completes four in a row
Sound(g, p) ==
    {col \in 0..(g.cols - 1) :
        /\ ~ColumnFull(g, col)
        /\ WinningColumns(Placed(g, col, p), 3 - p) = {}}

\* C28: when MediumAI.find_best_move gets as far as its search (nobody can
\* win at once, so no win, block or trap is returned), it does not return a
\* column after which the opponent can win at once, provided some legal
\* column is free of that defect.
C28_NoLosingMove ==
    (/\ Asked({"MediumAI"})
     /\ Quiet(G)
     /\ Sound(G, Mover) # {}) =>
        last.col \in Sound(G, Mover)


\* C29: on a board of any number of columns C the engine's move ordering is
\* a permutation of 0..C-1, and a node of the search that is not over and
\* has plies left to look ahead never returns an infinite score.
C29_OrderCoversBoard ==
    Scored(EngineKinds) =>
        /\ Len(column_order) = G.cols
        /\ {column_order[i] : i \in 1..Len(column_order)} = 0..(G.cols - 1)
        /\ (~Terminal(G) /\ last.args[1] >= 1) =>
               last.value \notin {PosInf, NegInf}


-----------------------------------------------------------------------------
(* The window: UserInputHandler (app/handlers/user_input_handler.py) over  *)
(* GameController (demo/app/controllers/game_controller.py).  Qt runs one  *)
(* callback at a time, so each handler is one step; what interleaves are   *)
(* the clicks, the single-shot timers and the New Game button.             *)

MaxGuiMoves == 7         \* successful make_move calls per run of SpecGui
MaxTimers == 2           \* timer callbacks pending at one time at most

\* the column buttons the player presses in these runs
Clicks == {0, 3}

\* GameController.__init__() and the window as it is first shown
GameController == [game_over |-> FALSE, enabled |-> TRUE, timers |-> 0]

InitGui ==
    /\ arrays = [id \in ArrayIds |-> IF id = 1 THEN zeros(6, 7) ELSE NoArray]
    /\ game = [new_game(6, 7) EXCEPT !.board = 1]
    /\ twin = NoGame
    /\ last = Call("new", "game", 0, TRUE)
    /\ budget = MaxGuiMoves
    /\ thermal = NoThermal
    /\ gui = GameController

\* GameController._check_end_conditions: the game_over flag after a move
_check_end_conditions(g, game_over) ==
    IF check_win(g) # None THEN TRUE
    ELSE IF is_draw(g) THEN TRUE
    ELSE game_over

\* ai_engine.find_best_move(board, 2): the column the search likes best
\* among those with room, 3 when no column has room
Answers(g) ==
    IF get_valid_columns(g) = <<>> THEN {3}
    ELSE {col \in 0..(g.cols - 1) : is_valid_move(g, col)}

\* on_column_selected(column), reached through a column button, which
\* passes clicks on only while it is enabled
on_column_selected(column) ==
    LET r == Moved(game, column)
        over == _check_end_conditions(r.g, gui.game_over)
    IN  /\ gui.enabled
        /\ IF gui.game_over
           THEN /\ last' = Call("on_column_selected", "UserInputHandler",
                                column, FALSE)
                /\ UNCHANGED <<arrays, game, budget, gui>>
           ELSE /\ r.ok => (budget > 0 /\ gui.timers < MaxTimers)
                /\ arrays' = [arrays EXCEPT ![game.board] = r.g.board]
                /\ game' = [r.g EXCEPT !.board = game.board]
                /\ budget' = IF r.ok THEN budget - 1 ELSE budget
                /\ last' = Call("on_column_selected", "UserInputHandler",
                                column, r.ok)
                /\ gui' = IF ~r.ok THEN gui
                          ELSE IF over
                          THEN [gui EXCEPT !.game_over = TRUE,
                                           !.enabled = FALSE]
                          ELSE [gui EXCEPT !.enabled = FALSE,
                                           !.timers = gui.timers + 1]
        /\ UNCHANGED <<twin, thermal>>

\* _make_ai_move, run by a timer that _schedule_ai_move started, with
\* GameController.make_ai_move inside; its answer None, which is no column,
\* is written -1
_make_ai_move ==
    /\ gui.timers > 0
    /\ IF gui.game_over
       THEN /\ last' = Call("make_ai_move", "GameController", -1, FALSE)
            /\ gui' = [gui EXCEPT !.timers = gui.timers - 1,
                                  !.enabled = TRUE]
            /\ UNCHANGED <<arrays, game, budget>>
       ELSE \E column \in Answers(Deref(game)) :
                LET r == Moved(game, column)
                    over == IF r.ok
                            THEN _check_end_conditions(r.g, gui.game_over)
                            ELSE gui.game_over
                IN  /\ r.ok => budget > 0
                    /\ arrays' = [arrays EXCEPT ![game.board] = r.g.board]
                    /\ game' = [r.g EXCEPT !.board = game.board]
                    /\ budget' = IF r.ok THEN budget - 1 ELSE budget
                    /\ last' = Call("make_ai_move", "GameController",
                                    column, r.ok)
                    /\ gui' = [gui EXCEPT !.timers = gui.timers - 1,
                                          !.game_over = over,
                                          !.enabled = ~over]
    /\ UNCHANGED <<twin, thermal>>

\* UserInputHandler.new_game with GameController.new_game inside; the New
\* Game button is always enabled and timers that are running keep running
NewGame ==
    /\ arrays' = [arrays EXCEPT ![game.board] = zeros(6, 7)]
    /\ game' = [new_game(6, 7) EXCEPT !.board = game.board]
    /\ last' = Call("new_game", "UserInputHandler", 0, TRUE)
    /\ gui' = [gui EXCEPT !.game_over = FALSE, !.enabled = TRUE]
    /\ UNCHANGED <<twin, budget, thermal>>

NextGui ==
    \/ \E column \in Clicks : on_column_selected(column)
    \/ _make_ai_move
    \/ NewGame

SpecGui == InitGui /\ [][NextGui]_vars

\* C30: in the window, however clicks, timer callbacks and New Game
\* interleave, every move that GameController.make_ai_move applies is made
\* on player TWO's turn: the piece is a player-TWO piece and never the
\* first piece of a game.
C30_AIMovesOnItsTurn ==
    (last.op = "make_ai_move" /\ last.ok) =>
        /\ G.board[G.last_move[1]][G.last_move[2]] = TWO
        /\ G.move_count >= 2

=============================================================================
